---- MODULE Spec2Model ----
(***************************************************************************)
(* A model of weather_util_rust: the Latitude scalar (src/latitude.rs) and *)
(* the current-weather / forecast records with their queries               *)
(* (src/weather_data.rs).                                                  *)
(*                                                                         *)
(* f64 values are modelled as records [nan, num]: num is the value in      *)
(* whole units (degrees), nan marks the IEEE NaN, for which every ordered  *)
(* comparison is false.  Instants are epoch seconds; a calendar date is    *)
(* the number of whole days since 1970-01-01.                              *)
(***************************************************************************)
EXTENDS Integers, Sequences, FiniteSets, TLC

VARIABLES
    lats,      \* the values held by the Latitude instances that exist
    lat_call,  \* the last request for a Latitude: [op, item] or [op, text]
    lat_ret,   \* its result: Ok(Latitude) or Err
    payload,   \* the current-weather payload last given to the deserializer
    wd,        \* the WeatherData that exists (NoData before construction)
    wd_err,    \* the deserializer's error, "none" when it succeeded
    cc,        \* get_current_conditions: "idle", "ok", "panic_offset" (line 64)
               \* or "panic_index" (line 89)
    out,       \* what get_current_conditions wrote into the sink
    forecast,  \* the WeatherForecast that exists: [list, city]
    pc,        \* get_high_low: "new", "ready", "fold", "done" or "panic"
    fo,        \* the FixedOffset built at the start of get_high_low
    idx,       \* number of samples the fold has consumed
    hmap,      \* the fold's accumulator: date -> <<high, low>>
    result     \* the mapping get_high_low returned

vars == <<lats, lat_call, lat_ret, payload, wd, wd_err, cc, out,
          forecast, pc, fo, idx, hmap, result>>

latVars == <<lats, lat_call, lat_ret>>
dataVars == <<payload, wd, wd_err, cc, out>>
forecastVars == <<forecast, pc, fo, idx, hmap, result>>

----------------------------------------------------------------------------
(* f64 *)

F64(x) == [nan |-> FALSE, num |-> x]
NaN == [nan |-> TRUE, num |-> 0]

\* item >= bound, item <= bound on f64: false whenever an operand is NaN
F64Ge(a, b) == ~a.nan /\ ~b.nan /\ a.num >= b.num
F64Le(a, b) == ~a.nan /\ ~b.nan /\ a.num <= b.num

----------------------------------------------------------------------------
(* Latitude *)

LatMin == -90
LatMax == 90

\* the raw values the operations are tried on
RawF64 == {F64(-91), F64(-90), F64(0), F64(45), F64(90), F64(91), NaN}

\* the strings given to the derived FromStr, and f64::from_str on them
LatStrings == {"45", "-90", "91", "NaN", "north"}
ParseF64(s) ==
    CASE s = "45" -> [ok |-> TRUE, val |-> F64(45)]
      [] s = "-90" -> [ok |-> TRUE, val |-> F64(-90)]
      [] s = "91" -> [ok |-> TRUE, val |-> F64(91)]
      [] s = "NaN" -> [ok |-> TRUE, val |-> NaN]
      [] OTHER -> [ok |-> FALSE]

Ok(v) == [ok |-> TRUE, val |-> v]
Err == [ok |-> FALSE]

\* a plausible slip: exclusive bounds
LatitudeTryFromStrict(item) ==
    IF F64Ge(item, F64(LatMin)) /\ F64Le(item, F64(LatMax))
       /\ item.num # LatMin /\ item.num # LatMax
    THEN Ok(item) ELSE Err

\* impl TryFrom<f64> for Latitude
LatitudeTryFrom(item) ==
    IF F64Ge(item, F64(LatMin)) /\ F64Le(item, F64(LatMax))
    THEN Ok(item) ELSE Err

\* impl Deserialize for Latitude: f64::deserialize(..).map(Self)
LatitudeDeserialize(item) == Ok(item)

\* #[derive(FromStr)]: the inner f64 is parsed and wrapped
LatitudeFromStr(s) ==
    IF ParseF64(s).ok THEN Ok(ParseF64(s).val) ELSE Err

\* the Latitude instances that exist once a constructor has returned ret
WithResult(ret) == IF ret.ok THEN lats \cup {ret.val} ELSE lats

TryFromF64 ==
    \E item \in RawF64 :
        LET ret == LatitudeTryFrom(item) IN
        /\ lat_call' = [op |-> "try_from", item |-> item]
        /\ lat_ret' = ret
        /\ lats' = WithResult(ret)
        /\ UNCHANGED <<dataVars, forecastVars>>

DeserializeLatitude ==
    \E item \in RawF64 :
        LET ret == LatitudeDeserialize(item) IN
        /\ lat_call' = [op |-> "deserialize", item |-> item]
        /\ lat_ret' = ret
        /\ lats' = WithResult(ret)
        /\ UNCHANGED <<dataVars, forecastVars>>

FromStrLatitude ==
    \E s \in LatStrings :
        LET ret == LatitudeFromStr(s) IN
        /\ lat_call' = [op |-> "from_str", text |-> s]
        /\ lat_ret' = ret
        /\ lats' = WithResult(ret)
        /\ UNCHANGED <<dataVars, forecastVars>>

----------------------------------------------------------------------------
(* chrono, as the queries use it *)

SecsPerDay == 86400

\* FixedOffset::east(secs): panics unless -86400 < secs < 86400
FixedOffsetEast(secs) ==
    [ok |-> -SecsPerDay < secs /\ secs < SecsPerDay, secs |-> secs]

\* dt.with_timezone(&fo).date().naive_local()
LocalDate(dt, off) == (dt + off) \div SecsPerDay

\* dt.with_timezone(&fo), as Display shows it: local date, time of day, offset
LocalDateTime(dt, off) ==
    [date |-> (dt + off) \div SecsPerDay,
     secs |-> (dt + off) % SecsPerDay,
     offset |-> off]

\* the timezone fields tried: a whole day west (FixedOffset refuses it), UTC-7,
\* UTC, UTC+1, and an offset past 18 hours that FixedOffset accepts
Timezones == {-86400, -25200, 0, 3600, 70000}

----------------------------------------------------------------------------
(* Temperature (crate::temperature): Kelvin, shown in hundredths of a degree *)

Fahr(k) == k * 180 - 45967
Celc(k) == k * 100 - 27315
TempGt(a, b) == a > b
TempLt(a, b) == a < b

----------------------------------------------------------------------------
(* WeatherData *)

Some(v) == [some |-> TRUE, val |-> v]
None == [some |-> FALSE]

NoPayload == [none |-> TRUE]
NoData == [none |-> TRUE]
NoOutput == [none |-> TRUE]

Cond(m, d) == [main |-> m, description |-> d]

DataLats == {F64(-91), F64(45), F64(90), F64(91)}
DataLons == {F64(-181), F64(-71), F64(180), F64(181)}
WeatherLists == {<<>>, <<Cond("Clear", "clear sky")>>,
                 <<Cond("Rain", "light rain"), Cond("Mist", "mist")>>}
Countries == {None, Some("US")}
Names == {None, Some("Boston")}

\* the current-weather payloads tried; name = None is a payload without the
\* required field
Payloads ==
    {[coord |-> [lon |-> lo, lat |-> la], weather |-> w, temp |-> 290,
      humidity |-> 55, wind |-> [speed |-> 5, deg |-> None],
      dt |-> 1600020000,
      sys |-> [country |-> c, sunrise |-> 1600000000, sunset |-> 1600040000],
      timezone |-> z, name |-> n] :
        la \in DataLats, lo \in DataLons, w \in WeatherLists,
        c \in Countries, n \in Names, z \in Timezones}

\* #[derive(Deserialize)] for WeatherData: every field is taken as it is sent;
\* a required field that is absent is the only failure modelled
WeatherDataDeserialize(p) ==
    IF ~p.name.some THEN [ok |-> FALSE, err |-> "MissingField"]
    ELSE Ok([coord |-> p.coord, weather |-> p.weather,
             main |-> [temp |-> p.temp, humidity |-> p.humidity],
             wind |-> p.wind, dt |-> p.dt, sys |-> p.sys,
             timezone |-> p.timezone, name |-> p.name.val])

DeserializeWeatherData ==
    /\ payload = NoPayload
    /\ \E p \in Payloads :
        LET r == WeatherDataDeserialize(p) IN
        /\ payload' = p
        /\ wd' = IF r.ok THEN r.val ELSE NoData
        /\ wd_err' = IF r.ok THEN "none" ELSE r.err
    /\ UNCHANGED <<cc, out, latVars, forecastVars>>

\* the first line's location: name and country, or nothing without a country
Header(w) ==
    IF w.sys.country.some THEN <<w.name, w.sys.country.val>> ELSE <<>>

\* wind.speed * 3600. / 1609.344 at {:0.2}: hundredths of a mph, rounded
Mph(speed) == (speed * 360000000 + 804672) \div 1609344

\* what writeln! puts into the sink
Render(w, off) ==
    [header |-> Header(w),
     coords |-> <<w.coord.lat, w.coord.lon>>,
     updated |-> LocalDateTime(w.dt, off),
     temp |-> <<Fahr(w.main.temp), Celc(w.main.temp)>>,
     humidity |-> w.main.humidity,
     wind |-> <<IF w.wind.deg.some THEN w.wind.deg.val ELSE 0,
                Mph(w.wind.speed)>>,
     conditions |-> w.weather[1].description,
     sunrise |-> LocalDateTime(w.sys.sunrise, off),
     sunset |-> LocalDateTime(w.sys.sunset, off)]

\* WeatherData::get_current_conditions: FixedOffset::east and weather[0] panic
\* before anything is written
GetCurrentConditions ==
    /\ wd # NoData
    /\ cc = "idle"
    /\ LET f == FixedOffsetEast(wd.timezone) IN
        IF ~f.ok THEN cc' = "panic_offset" /\ out' = out
        ELSE IF Len(wd.weather) = 0 THEN cc' = "panic_index" /\ out' = out
        ELSE cc' = "ok" /\ out' = Render(wd, f.secs)
    /\ UNCHANGED <<payload, wd, wd_err, latVars, forecastVars>>

----------------------------------------------------------------------------
(* WeatherForecast *)

MaxLen == 3

\* three instants of 2020-09-13/14: 00:00 and 23:00 of one UTC day, 00:00 of
\* the next
Dts == {1599955200, 1600038000, 1600041600}

\* (temp_max, temp_min) of a sample; the last has its bounds swapped
TempPairs == {<<10, 5>>, <<15, 2>>, <<12, 8>>, <<5, 9>>}

Samples ==
    {[dt |-> d, main |-> [temp_max |-> t[1], temp_min |-> t[2]]] :
        d \in Dts, t \in TempPairs}

Lists == UNION {[1..n -> Samples] : n \in 0..MaxLen}

EmptyMap == [d \in {} |-> <<0, 0>>]

\* BTreeMap::insert
Insert(h, date, v) ==
    [d \in DOMAIN h \cup {date} |-> IF d = date THEN v ELSE h[d]]

\* plausible slips of the fold's closure
FoldEntryKeepFirst(h, entry, off) ==
    LET date == LocalDate(entry.dt, off) IN
    IF date \in DOMAIN h THEN h
    ELSE Insert(h, date, <<entry.main.temp_max, entry.main.temp_min>>)

FoldEntryLastWins(h, entry, off) ==
    Insert(h, LocalDate(entry.dt, off),
           <<entry.main.temp_max, entry.main.temp_min>>)

FoldEntryLowUp(h, entry, off) ==
    LET date == LocalDate(entry.dt, off)
        high == entry.main.temp_max
        low == entry.main.temp_min
    IN  IF date \in DOMAIN h
        THEN LET high2 == IF TempGt(high, h[date][1]) THEN high ELSE h[date][1]
                 low2 == IF TempGt(low, h[date][2]) THEN low ELSE h[date][2]
             IN  Insert(h, date, <<high2, low2>>)
        ELSE Insert(h, date, <<high, low>>)

\* the closure of the fold in get_high_low
FoldEntry(h, entry, off) ==
    LET date == LocalDate(entry.dt, off)
        high == entry.main.temp_max
        low == entry.main.temp_min
    IN  IF date \in DOMAIN h
        THEN LET high2 == IF TempGt(high, h[date][1]) THEN high ELSE h[date][1]
                 low2 == IF TempLt(low, h[date][2]) THEN low ELSE h[date][2]
             IN  IF <<high2, low2>> # h[date]
                 THEN Insert(h, date, <<high2, low2>>)
                 ELSE h
        ELSE Insert(h, date, <<high, low>>)

\* self.list.iter().fold(BTreeMap::new(), ..) from sample i on
RECURSIVE FoldFrom(_, _, _, _)
FoldFrom(h, list, i, off) ==
    IF i > Len(list) THEN h
    ELSE FoldFrom(FoldEntry(h, list[i], off), list, i + 1, off)

\* WeatherForecast::get_high_low on a forecast whose offset FixedOffset accepts
GetHighLow(list, off) == FoldFrom(EmptyMap, list, 1, off)

NoForecast == [list |-> <<>>, city |-> [timezone |-> 0]]

\* #[derive(Deserialize)] for WeatherForecast: list and city.timezone as sent
DeserializeForecast ==
    /\ pc = "new"
    /\ \E l \in Lists, z \in Timezones :
        forecast' = [list |-> l, city |-> [timezone |-> z]]
    /\ pc' = "ready"
    /\ UNCHANGED <<fo, idx, hmap, result, latVars, dataVars>>

\* get_high_low, line 134: the offset is built, or the call panics
GetHighLowBegin ==
    /\ pc = "ready"
    /\ LET f == FixedOffsetEast(forecast.city.timezone) IN
        IF f.ok
        THEN pc' = "fold" /\ fo' = f.secs
        ELSE pc' = "panic" /\ fo' = fo
    /\ idx' = 0
    /\ hmap' = EmptyMap
    /\ UNCHANGED <<forecast, result, latVars, dataVars>>

\* one sample through the closure
FoldStep ==
    /\ pc = "fold"
    /\ idx < Len(forecast.list)
    /\ hmap' = FoldEntry(hmap, forecast.list[idx + 1], fo)
    /\ idx' = idx + 1
    /\ UNCHANGED <<forecast, pc, fo, result, latVars, dataVars>>

\* the fold is over: the accumulator is returned
GetHighLowReturn ==
    /\ pc = "fold"
    /\ idx = Len(forecast.list)
    /\ result' = hmap
    /\ pc' = "done"
    /\ UNCHANGED <<forecast, fo, idx, hmap, latVars, dataVars>>

----------------------------------------------------------------------------
(* specifications *)

Init ==
    /\ lats = {}
    /\ lat_call = [op |-> "none"]
    /\ lat_ret = Err
    /\ payload = NoPayload
    /\ wd = NoData
    /\ wd_err = "none"
    /\ cc = "idle"
    /\ out = NoOutput
    /\ forecast = NoForecast
    /\ pc = "new"
    /\ fo = 0
    /\ idx = 0
    /\ hmap = EmptyMap
    /\ result = EmptyMap

NextLat == TryFromF64 \/ DeserializeLatitude \/ FromStrLatitude
NextData == DeserializeWeatherData \/ GetCurrentConditions
Next == DeserializeForecast \/ GetHighLowBegin \/ FoldStep \/ GetHighLowReturn

SpecLat == Init /\ [][NextLat]_vars
SpecData == Init /\ [][NextData]_vars
Spec == Init /\ [][Next]_vars

----------------------------------------------------------------------------
(* the claims *)

MaxOf(S) == CHOOSE x \in S : \A y \in S : y <= x
MinOf(S) == CHOOSE x \in S : \A y \in S : x <= y

\* the samples of the forecast whose offset-shifted instant falls on day d
SamplesOn(d) ==
    {i \in 1..Len(forecast.list) :
        (forecast.list[i].dt + forecast.city.timezone) \div 86400 = d}
MaxTemps(d) == {forecast.list[i].main.temp_max : i \in SamplesOn(d)}
MinTemps(d) == {forecast.list[i].main.temp_min : i \in SamplesOn(d)}

\* C1: every date of the returned mapping holds (the maximum of temp_max, the
\* minimum of temp_min) over the samples whose local date it is.
C1_HighLowPerDate ==
    pc = "done" =>
        \A d \in DOMAIN result :
            /\ SamplesOn(d) # {}
            /\ result[d] = <<MaxOf(MaxTemps(d)), MinOf(MinTemps(d))>>

\* three samples of one local date with max {10,15,12} and min {5,2,8}: (15, 2)
C1_Witness ==
    /\ pc = "done"
    /\ \E d \in DOMAIN result :
        /\ Cardinality(SamplesOn(d)) = 3
        /\ MaxTemps(d) = {10, 15, 12}
        /\ MinTemps(d) = {5, 2, 8}
        /\ result[d] = <<15, 2>>

\* the key set of the returned mapping is the set of the samples' local dates
KeySetIsLocalDates ==
    pc = "done" =>
        DOMAIN result =
            {(forecast.list[i].dt + forecast.city.timezone) \div 86400 :
                i \in 1..Len(forecast.list)}

\* two samples of one UTC day that the offset puts on different days
KeySetWitness ==
    /\ pc = "done"
    /\ \E i, j \in 1..Len(forecast.list) :
        /\ forecast.list[i].dt \div 86400 = forecast.list[j].dt \div 86400
        /\ LocalDate(forecast.list[i].dt, fo) # LocalDate(forecast.list[j].dt, fo)
    /\ Cardinality(DOMAIN result) = 2

\* C2: the returned mapping's keys are exactly the samples' local dates (the
\* date of dt + city.timezone), and a forecast with an empty list yields the
\* empty mapping, never an error.
C2_KeysAndEmptyList ==
    /\ KeySetIsLocalDates
    /\ (pc \in {"done", "panic"} /\ forecast.list = <<>>) =>
            (pc = "done" /\ result = EmptyMap)

\* C3: TryFrom<f64> succeeds exactly on -90 <= v <= 90, holding v, and
\* otherwise returns an error without a Latitude.
C3_TryFromIffInRange ==
    lat_call.op = "try_from" =>
        LET v == lat_call.item IN
        /\ lat_ret.ok <=> (~v.nan /\ v.num >= -90 /\ v.num <= 90)
        /\ lat_ret.ok => lat_ret.val = v
        /\ ~lat_ret.ok => lat_ret = Err

\* the upper bound itself is accepted
C3_Witness ==
    /\ lat_call = [op |-> "try_from", item |-> F64(90)]
    /\ lat_ret = Ok(F64(90))

\* C4: every Latitude that exists, however it was produced, holds a value in
\* [-90, 90].
C4_EveryLatitudeInRange ==
    \A l \in lats : ~l.nan /\ l.num >= -90 /\ l.num <= 90

\* C5: a payload with an empty weather list is refused with
\* EmptyConditionList, no WeatherData has an empty weather list, and
\* get_current_conditions never panics on weather[0].
C5_EmptyConditionsRefused ==
    /\ (payload # NoPayload /\ payload.name.some /\ payload.weather = <<>>) =>
            (wd = NoData /\ wd_err = "EmptyConditionList")
    /\ wd # NoData => wd.weather # <<>>
    /\ cc # "panic_index"

\* C6: a payload whose coord.lat is outside [-90, 90] or whose coord.lon is
\* outside [-180, 180] produces no WeatherData; every WeatherData has both
\* coordinates in range.
C6_CoordinatesValidated ==
    wd # NoData =>
        /\ ~wd.coord.lat.nan /\ wd.coord.lat.num >= -90 /\ wd.coord.lat.num <= 90
        /\ ~wd.coord.lon.nan /\ wd.coord.lon.num >= -180 /\ wd.coord.lon.num <= 180

\* C7: a timezone offset of more than 18 hours (64800 s) is refused when the
\* payload is constructed, so get_high_low never panics on a forecast that
\* exists.
C7_OffsetValidatedNoPanic ==
    /\ pc # "new" =>
            (forecast.city.timezone >= -64800 /\ forecast.city.timezone <= 64800)
    /\ pc # "panic"

\* the strings of a rendering
RenderedStrings(o) == {o.header[i] : i \in 1..Len(o.header)} \cup {o.conditions}

\* C8: the rendering of get_current_conditions contains the location name,
\* with and without sys.country.
C8_RenderingHasName ==
    cc = "ok" => wd.name \in RenderedStrings(out)

\* the list in the order p
Permuted(list, p) == [i \in 1..Len(list) |-> list[p[i]]]

\* C9: get_high_low returns the same mapping for every permutation of the
\* sample list under the same city.timezone.
C9_OrderIndependent ==
    pc = "done" =>
        \A p \in Permutations(1..Len(forecast.list)) :
            GetHighLow(Permuted(forecast.list, p), forecast.city.timezone) = result

\* timestamps of one date out of order, a sample of another date between them
C9_Witness ==
    /\ pc = "done"
    /\ Len(forecast.list) = 3
    /\ forecast.list[1].dt > forecast.list[3].dt
    /\ LocalDate(forecast.list[1].dt, fo) = LocalDate(forecast.list[3].dt, fo)
    /\ LocalDate(forecast.list[2].dt, fo) # LocalDate(forecast.list[1].dt, fo)
    /\ forecast.list[1].main # forecast.list[3].main

AllSamplesOrdered ==
    \A i \in 1..Len(forecast.list) :
        forecast.list[i].main.temp_max >= forecast.list[i].main.temp_min

EntriesOrdered(h) == \A d \in DOMAIN h : h[d][1] >= h[d][2]

\* C10: when every sample has temp_max >= temp_min, every entry of the
\* accumulator after each fold step, and of the returned mapping, has
\* high >= low; and a fold step never removes a date, lowers its high or
\* raises its low.
C10_OrderedAndMonotone ==
    /\ [](AllSamplesOrdered => (EntriesOrdered(hmap) /\ EntriesOrdered(result)))
    /\ [][pc = "fold" =>
            \A d \in DOMAIN hmap :
                /\ d \in DOMAIN hmap'
                /\ hmap'[d][1] >= hmap[d][1]
                /\ hmap'[d][2] <= hmap[d][2]]_vars

\* after two steps a date seeded with (10, 5) holds (15, 2)
C10_Witness ==
    /\ pc = "fold"
    /\ idx = 2
    /\ AllSamplesOrdered
    /\ forecast.list[1].main = [temp_max |-> 10, temp_min |-> 5]
    /\ hmap[LocalDate(forecast.list[1].dt, fo)] = <<15, 2>>

====
